---- MODULE Spec2Model ----
(***************************************************************************)
(* Model of pyblaze.multiprocessing.vectorize.Vectorizer: the orchestrating *)
(* thread (process, _process_batches, _process_consumers, the shutdown      *)
(* functions, __del__) and the worker processes (_batch_worker,             *)
(* _consumer_worker), communicating through multiprocessing queues.         *)
(*                                                                          *)
(* The orchestrator is a sequential process whose position is `pc`; every   *)
(* worker process of every run has a record in `procs`.  One action is one  *)
(* step between two blocking or inter-process operations.                   *)
(***************************************************************************)
EXTENDS Integers, Sequences, FiniteSets, TLC

\* ---------------------------------------------------------------- bounds
MaxWorkers == 2
MaxLen == 3
MaxCalls == 2
MaxPatience == 3
MaxMetric == 2
MaxEpochs == 4

\* os.cpu_count() of the machine the model runs on
CpuCount == 1

\* the item on which the user's worker_func raises
Poison == 0

\* a queue object that was not created (tick_queue = None)
NoQueue == -1

\* _shutdown_fn = None
None == 0

Runs == 1..MaxCalls
NumWorkersArgs == (-2)..MaxWorkers
InitKinds == {"absent", "scalar", "tuple"}
\* the extra arguments of a process call: none, or one positional argument
ArgChoices == {<<>>, <<"a">>}

\* inputs of length n: pairwise distinct items, at most one of them the item
\* worker_func raises on
Inputs(n) == { [i \in 1..n |-> IF i = p THEN Poison ELSE i] : p \in 0..n }
AllInputs == UNION { Inputs(n) : n \in 0..MaxLen }

\* what the input offers, as <<has __getitem__, has __len__>>: a list, an
\* object with index access only, a stream
InputKinds == {<<TRUE, TRUE>>, <<TRUE, FALSE>>, <<FALSE, FALSE>>}

\* ------------------------------------------------------- pure functions

\* the value worker_init returns for a rank (None when it is absent)
worker_init_call(kind, rank) ==
    IF kind = "scalar" THEN <<"scalar", <<"ctx", rank>> >>
    ELSE IF kind = "tuple" THEN <<"tuple", << <<"ctx", rank>>, "aux" >> >>
    ELSE <<"None", <<>> >>

init_if_needed(init, rank) ==
    IF init = "absent" THEN <<"None", <<>> >>
    ELSE worker_init_call(init, rank)

combine_args_init_first(a, b) ==
    IF b[1] = "None" THEN a
    ELSE IF b[1] = "tuple" THEN b[2] \o a
    ELSE <<b[2]>> \o a

combine_args(a, b) ==
    IF b[1] = "None" THEN a
    ELSE IF b[1] = "tuple" THEN a \o b[2]
    ELSE a \o <<b[2]>>

\* worker_func(item, *all_args): the application itself, uninterpreted
worker_func(item, all_args) == <<item, all_args>>
worker_func_raises(item) == item = Poison

\* np.array_split(np.arange(n), w): the sizes of the w sections
section_size(n, w, i) == IF i < n % w THEN (n \div w) + 1 ELSE n \div w

RECURSIVE div_point(_, _, _)
div_point(n, w, i) == IF i = 0 THEN 0 ELSE div_point(n, w, i - 1) + section_size(n, w, i - 1)

\* splits = [0] + [a[-1] + 1 for a in splits]
splits(n, w) == [i \in 0..w |-> div_point(n, w, i)]

\* a[-1] of an empty section
splits_index_error(n, w) == \E i \in 0..(w - 1) : section_size(n, w, i) = 0

\* items[lo:hi] with 0-based bounds
slice(s, lo, hi) == SubSeq(s, lo + 1, hi)

\* sorted(result, key=lambda r: r[0]): stable insertion by index
RECURSIVE insert_sorted(_, _)
insert_sorted(s, r) ==
    IF s = <<>> THEN <<r>>
    ELSE IF s[Len(s)][1] <= r[1] THEN Append(s, r)
    ELSE Append(insert_sorted(SubSeq(s, 1, Len(s) - 1), r), s[Len(s)])

RECURSIVE sorted(_)
sorted(s) == IF s = <<>> THEN <<>> ELSE insert_sorted(sorted(SubSeq(s, 1, Len(s) - 1)), s[Len(s)])

\* [r[1] for r in ...]
values(s) == [i \in 1..Len(s) |-> s[i][2]]

\* ----------------------------------------------------------------- state
VARIABLES
    num_workers,    \* self.num_workers
    worker_init,    \* self.worker_init: "absent" or the kind of value it returns
    callback_func,  \* self.callback_func is not None
    shutdown_fn,    \* self._shutdown_fn: None or the run it is bound to
    pc,             \* position of the orchestrating thread
    run,            \* number of process calls started so far
    calls_left,     \* process calls the client will still make
    args,           \* the extra positional arguments the client passes to process
    items, indexable,   \* the input of the current process call
    sized,          \* whether that input supports len()
    k,              \* loop counter of the orchestrator's current for loop
    index, expect,  \* _process_consumers locals
    result,         \* the orchestrator's result list
    outcome,        \* how the last process call ended
    callbacks,      \* callback_func invocations during the current call
    mode,           \* per run: "none", "sequential", "batches", "consumers"
    procs,          \* per run and rank: the worker process
    tick_queue,     \* per run: number of ticks queued, or NoQueue
    queues,         \* per run and rank: the worker's bundle queue
    done,           \* per run: the mp.Event
    push_queue,     \* per run: orchestrator -> consumers
    pull_queue,     \* per run: consumers -> orchestrator
    shutdowns,      \* per run: invocations of the run's shutdown function
    es              \* the EarlyStopping callback object of a training run

\* what no step of the Vectorizer or of its workers changes
config == <<num_workers, worker_init, callback_func, args, es>>
call == <<items, indexable, sized>>
locals == <<k, index, expect, result>>
channels == <<tick_queue, queues, done, push_queue, pull_queue>>
vars == <<num_workers, worker_init, callback_func, shutdown_fn, pc, run, calls_left, items,
          indexable, sized, args, k, index, expect, result, outcome, callbacks, mode,
          procs, tick_queue, queues, done, push_queue, pull_queue, shutdowns, es>>

Ranks == 0..(MaxWorkers - 1)

\* a process that was never created
\* (`out` and `ticks` are what the process has put on its result queue and on
\* the tick queue and the queue's feeder thread has not written yet; `wlock`
\* is where the process's feeder thread is with the write lock of the queue
\* the workers of a run share, pull_queue or tick_queue: "no" when it does not
\* hold it, "held" once it has acquired it, "written" once it has written
\* under it and not yet released it)
NoProc == [st |-> "none", rank |-> 0, items |-> <<>>, result |-> <<>>, item |-> <<>>,
           all_args |-> <<>>, init_log |-> <<>>, applied |-> 0, args |-> <<>>,
           out |-> <<>>, ticks |-> 0, wlock |-> "no"]

\* the process ends, with state st: after cancel_join_thread() it does not
\* wait for its feeder threads, what they have not written is dropped, and a
\* write lock its feeder thread holds is never released
ended(p, st) == [p EXCEPT !.st = st, !.out = <<>>, !.ticks = 0]

\* the rank argument of the i-th process a run creates
spawn_rank_same(i) == 0
spawn_rank(i) == i

\* mp.Process(target=..., args=...) followed by start()
Spawn(rank, shard, a) ==
    [NoProc EXCEPT !.st = "spawned", !.rank = rank, !.items = shard, !.args = a]

Alive(p) == p.st \in {"spawned", "running", "waiting", "busy", "parked"}

\* float('inf') and -float('inf') next to the metric values
PosInf == [inf |-> 1, v |-> 0]
NegInf == [inf |-> -1, v |-> 0]
Num(v) == [inf |-> 0, v |-> v]

\* a < b for a metric value a and a best_metric b
less(a, b) == IF b.inf = 1 THEN TRUE ELSE IF b.inf = -1 THEN FALSE ELSE a < b.v
greater(a, b) == IF b.inf = -1 THEN TRUE ELSE IF b.inf = 1 THEN FALSE ELSE a > b.v

\* no EarlyStopping object exists
NoEarlyStopping == [state |-> "none", patience |-> 0, minimize |-> TRUE, epoch |-> 0,
                    counter |-> 0, best_metric |-> PosInf, seen |-> <<>>]

\* EarlyStopping.__init__ (epoch, counter and best_metric are None until
\* before_training); `seen` records the metrics passed to after_epoch
EarlyStopping(patience, minimize) ==
    [NoEarlyStopping EXCEPT !.state = "constructed", !.patience = patience,
                            !.minimize = minimize]

\* Vectorizer.__init__ lines 37-42 and the state before the first call
Constructed(kinds, argsets, calls) ==
    /\ \E n \in NumWorkersArgs : num_workers = IF n = -1 THEN CpuCount ELSE n
    /\ worker_init \in kinds
    /\ callback_func \in BOOLEAN
    /\ shutdown_fn = None
    /\ pc = "idle"
    /\ run = 0
    /\ calls_left = calls
    /\ items = <<>> /\ indexable = FALSE /\ sized = FALSE /\ args \in argsets
    /\ k = 0 /\ index = 0 /\ expect = 0 /\ result = <<>>
    /\ outcome = "none"
    /\ callbacks = 0
    /\ mode = [r \in Runs |-> "none"]
    /\ procs = [r \in Runs |-> [i \in Ranks |-> NoProc]]
    /\ tick_queue = [r \in Runs |-> NoQueue]
    /\ queues = [r \in Runs |-> [i \in Ranks |-> <<>>]]
    /\ done = [r \in Runs |-> FALSE]
    /\ push_queue = [r \in Runs |-> <<>>]
    /\ pull_queue = [r \in Runs |-> <<>>]
    /\ shutdowns = [r \in Runs |-> 0]

\* a client that calls process once, with some extra arguments, and then
\* drops the Vectorizer
Init == Constructed(InitKinds, ArgChoices, 1) /\ es = NoEarlyStopping

\* a client that calls process up to MaxCalls times on the same Vectorizer
\* (built without worker_init, and with a callback only when it has at most
\* one worker), each time with the extra argument "a"
InitReuse ==
    /\ Constructed({"absent"}, {<<"a">>}, MaxCalls) /\ es = NoEarlyStopping
    /\ (num_workers <= 1 \/ ~callback_func)

\* ------------------------------------------------- the orchestrating thread
CurrentCall == pc \notin {"idle", "discarded", "del_terminate"}

\* process raises: the exception unwinds through process (no handler, no finally)
Raise(exc) ==
    /\ pc' = "idle"
    /\ outcome' = exc

\* an iterator over a stream may raise instead of yielding; a list does not
MayRaise == IF indexable THEN {FALSE} ELSE BOOLEAN

\* process, lines 63-66: num_workers == 0, the rank-0 context is built inline
ProcessSequential ==
    /\ pc = "idle" /\ calls_left > 0
    /\ num_workers = 0
    /\ \E its \in AllInputs, kind \in InputKinds :
        /\ items' = its /\ indexable' = kind[1] /\ sized' = kind[2]
        /\ run' = run + 1 /\ calls_left' = calls_left - 1
        /\ mode' = [mode EXCEPT ![run + 1] = "sequential"]
        /\ procs' = [procs EXCEPT ![run + 1][0] =
                [NoProc EXCEPT !.st = "inline", !.args = args,
                    !.init_log = IF worker_init = "absent" THEN <<>> ELSE <<0>>,
                    !.all_args = combine_args(args, init_if_needed(worker_init, 0))]]
        /\ k' = 0 /\ index' = 0 /\ expect' = 0 /\ result' = <<>>
        /\ callbacks' = 0
        /\ outcome' = "none"
        /\ pc' = "seq"
    /\ UNCHANGED <<config, shutdown_fn, channels, shutdowns>>

\* process, lines 67-68: one iteration of the sequential loop
SequentialItem ==
    /\ pc = "seq" /\ k < Len(items)
    /\ \E raise \in MayRaise :
        IF raise THEN
            /\ Raise("IteratorError")
            /\ UNCHANGED <<k, result, procs>>
        ELSE IF worker_func_raises(items[k + 1]) THEN
            /\ Raise("TransformError")
            /\ UNCHANGED <<k, result, procs>>
        ELSE
            /\ result' = Append(result, worker_func(items[k + 1], procs[run][0].all_args))
            /\ procs' = [procs EXCEPT ![run][0].applied = @ + 1]
            /\ k' = k + 1
            /\ UNCHANGED <<pc, outcome>>
    /\ UNCHANGED <<config, shutdown_fn, run, calls_left, call, index, expect, callbacks, mode,
                   channels, shutdowns>>

\* process, line 69: return result (no shutdown function is involved)
SequentialReturn ==
    /\ pc = "seq" /\ k = Len(items)
    /\ \E raise \in MayRaise :
        IF raise THEN Raise("IteratorError")
        ELSE pc' = "idle" /\ outcome' = "returned"
    /\ UNCHANGED <<config, shutdown_fn, run, calls_left, call, locals, callbacks, mode, procs,
                   channels, shutdowns>>

\* process lines 71-74 and _process_batches line 84: the input has __getitem__,
\* so the static path is taken, and len(items) raises on an input without __len__
ProcessBatchesTypeError ==
    /\ pc = "idle" /\ calls_left > 0
    /\ num_workers # 0
    /\ \E its \in AllInputs :
        items' = its /\ indexable' = TRUE /\ sized' = FALSE
    /\ run' = run + 1 /\ calls_left' = calls_left - 1
    /\ k' = 0 /\ index' = 0 /\ expect' = 0 /\ result' = <<>>
    /\ callbacks' = 0
    /\ Raise("TypeError")
    /\ UNCHANGED <<config, shutdown_fn, mode, procs, channels, shutdowns>>

\* process lines 71-74 and _process_batches lines 84-86: np.array_split rejects
\* a section count <= 0
ProcessBatchesValueError ==
    /\ pc = "idle" /\ calls_left > 0
    /\ num_workers < 0
    /\ \E its \in AllInputs :
        items' = its /\ indexable' = TRUE /\ sized' = TRUE
    /\ run' = run + 1 /\ calls_left' = calls_left - 1
    /\ k' = 0 /\ index' = 0 /\ expect' = 0 /\ result' = <<>>
    /\ callbacks' = 0
    /\ Raise("ValueError")
    /\ UNCHANGED <<config, shutdown_fn, mode, procs, channels, shutdowns>>

\* _process_batches line 87: a[-1] of an empty section raises
ProcessBatchesIndexError ==
    /\ pc = "idle" /\ calls_left > 0
    /\ num_workers > 0
    /\ \E its \in AllInputs :
        /\ splits_index_error(Len(its), num_workers)
        /\ items' = its /\ indexable' = TRUE /\ sized' = TRUE
    /\ run' = run + 1 /\ calls_left' = calls_left - 1
    /\ k' = 0 /\ index' = 0 /\ expect' = 0 /\ result' = <<>>
    /\ callbacks' = 0
    /\ Raise("IndexError")
    /\ UNCHANGED <<config, shutdown_fn, mode, procs, channels, shutdowns>>

\* _process_batches lines 84-117: split, spawn one worker per shard, record
\* the shutdown function
ProcessBatches ==
    /\ pc = "idle" /\ calls_left > 0
    /\ num_workers > 0
    /\ \E its \in AllInputs :
        /\ ~splits_index_error(Len(its), num_workers)
        /\ items' = its /\ indexable' = TRUE /\ sized' = TRUE
        /\ procs' = [procs EXCEPT ![run + 1] = [i \in Ranks |->
                IF i < num_workers
                THEN Spawn(spawn_rank(i), slice(its, splits(Len(its), num_workers)[i],
                                      splits(Len(its), num_workers)[i + 1]), args)
                ELSE NoProc]]
    /\ run' = run + 1 /\ calls_left' = calls_left - 1
    /\ mode' = [mode EXCEPT ![run + 1] = "batches"]
    /\ tick_queue' = [tick_queue EXCEPT ![run + 1] = IF callback_func THEN 0 ELSE NoQueue]
    /\ shutdown_fn' = run + 1
    /\ k' = 0 /\ index' = 0 /\ expect' = 0 /\ result' = <<>>
    /\ callbacks' = 0
    /\ outcome' = "none"
    /\ pc' = IF callback_func THEN "ticks" ELSE "bundles"
    /\ UNCHANGED <<config, queues, done, push_queue, pull_queue, shutdowns>>

\* _process_batches lines 119-122: one tick read, one callback
BatchesTick ==
    /\ pc = "ticks"
    /\ tick_queue[run] > 0
    /\ tick_queue' = [tick_queue EXCEPT ![run] = @ - 1]
    /\ callbacks' = callbacks + 1
    /\ \E raise \in BOOLEAN :
        IF raise THEN
            /\ Raise("CallbackError")
            /\ k' = k
        ELSE
            /\ k' = IF k + 1 = Len(items) THEN 0 ELSE k + 1
            /\ pc' = IF k + 1 = Len(items) THEN "bundles" ELSE "ticks"
            /\ UNCHANGED outcome
    /\ UNCHANGED <<config, shutdown_fn, run, calls_left, call, index, expect, result, mode, procs,
                   queues, done, push_queue, pull_queue, shutdowns>>

\* _process_batches lines 124-128: read the bundle of worker k
BatchesBundle ==
    /\ pc = "bundles"
    /\ queues[run][k] # <<>>
    /\ result' = result \o Head(queues[run][k])
    /\ queues' = [queues EXCEPT ![run][k] = Tail(@)]
    /\ k' = k + 1
    /\ pc' = IF k + 1 = num_workers THEN "shutdown" ELSE "bundles"
    /\ UNCHANGED <<config, shutdown_fn, run, calls_left, call, index, expect, outcome, callbacks,
                   mode, procs, tick_queue, done, push_queue, pull_queue, shutdowns>>

\* process lines 71-76 and _process_consumers lines 135-158: spawn
\* range(num_workers) consumers, record the shutdown function, open the iterator
ProcessConsumers ==
    /\ pc = "idle" /\ calls_left > 0
    /\ num_workers # 0
    /\ \E its \in AllInputs :
        /\ items' = its /\ indexable' = FALSE /\ sized' = FALSE
        /\ procs' = [procs EXCEPT ![run + 1] = [i \in Ranks |->
                IF i < num_workers THEN Spawn(spawn_rank(i), <<>>, args) ELSE NoProc]]
    /\ run' = run + 1 /\ calls_left' = calls_left - 1
    /\ mode' = [mode EXCEPT ![run + 1] = "consumers"]
    /\ shutdown_fn' = run + 1
    /\ k' = 0 /\ index' = 0 /\ expect' = 0 /\ result' = <<>>
    /\ callbacks' = 0
    /\ outcome' = "none"
    /\ pc' = IF num_workers > 0 THEN "prime" ELSE "loop"
    /\ UNCHANGED <<config, channels, shutdowns>>

\* _process_consumers lines 164 and 175: the message (index, item)
work_item_untagged(idx, item) == <<0, item>>
work_item(idx, item) == <<idx, item>>

\* for _ in range(self.num_workers): the loop ends after the j-th iteration
prime_done_late(j) == j = num_workers + 1
prime_done(j) == j = num_workers

\* _process_consumers lines 160-165: one iteration of the priming loop
ConsumersPrime ==
    /\ pc = "prime"
    /\ \E raise \in MayRaise :
        IF raise THEN
            /\ Raise("IteratorError")
            /\ UNCHANGED <<k, index, expect, push_queue>>
        ELSE IF index = Len(items) THEN      \* StopIteration
            /\ pc' = "drain"
            /\ k' = 0
            /\ UNCHANGED <<index, expect, push_queue, outcome>>
        ELSE
            /\ expect' = expect + 1
            /\ push_queue' = [push_queue EXCEPT ![run] = Append(@, work_item(index, items[index + 1]))]
            /\ index' = index + 1
            /\ k' = k + 1
            /\ pc' = IF prime_done(k + 1) THEN "loop" ELSE "prime"
            /\ UNCHANGED outcome
    /\ UNCHANGED <<config, shutdown_fn, run, calls_left, call, result, callbacks, mode, procs,
                   tick_queue, queues, done, pull_queue, shutdowns>>

\* _process_consumers lines 167-176: one iteration of the while loop
ConsumersLoop ==
    /\ pc = "loop"
    /\ pull_queue[run] # <<>>
    /\ result' = Append(result, Head(pull_queue[run]))
    /\ pull_queue' = [pull_queue EXCEPT ![run] = Tail(@)]
    /\ callbacks' = IF callback_func THEN callbacks + 1 ELSE callbacks
    /\ \E cb_raise \in (IF callback_func THEN BOOLEAN ELSE {FALSE}), raise \in MayRaise :
        IF cb_raise THEN
            /\ Raise("CallbackError")
            /\ UNCHANGED <<k, index, expect, push_queue>>
        ELSE IF raise THEN
            /\ Raise("IteratorError")
            /\ expect' = expect - 1
            /\ UNCHANGED <<k, index, push_queue>>
        ELSE IF index = Len(items) THEN      \* StopIteration
            /\ expect' = expect - 1
            /\ pc' = "drain"
            /\ k' = 0
            /\ UNCHANGED <<index, push_queue, outcome>>
        ELSE
            /\ push_queue' = [push_queue EXCEPT ![run] = Append(@, work_item(index, items[index + 1]))]
            /\ index' = index + 1
            /\ UNCHANGED <<k, expect, pc, outcome>>
    /\ UNCHANGED <<config, shutdown_fn, run, calls_left, call, mode, procs, tick_queue, queues,
                   done, shutdowns>>

\* _process_consumers line 179: for _ in range(expect)
drain_reads_extra(e) == e + 1
drain_reads(e) == e

\* _process_consumers lines 178-182: one iteration of the drain loop
ConsumersDrain ==
    /\ pc = "drain" /\ k < drain_reads(expect)
    /\ pull_queue[run] # <<>>
    /\ result' = Append(result, Head(pull_queue[run]))
    /\ pull_queue' = [pull_queue EXCEPT ![run] = Tail(@)]
    /\ callbacks' = IF callback_func THEN callbacks + 1 ELSE callbacks
    /\ \E cb_raise \in (IF callback_func THEN BOOLEAN ELSE {FALSE}) :
        IF cb_raise THEN
            /\ Raise("CallbackError")
            /\ k' = k
        ELSE
            /\ k' = k + 1
            /\ UNCHANGED <<pc, outcome>>
    /\ UNCHANGED <<config, shutdown_fn, run, calls_left, call, index, expect, mode, procs,
                   tick_queue, queues, done, push_queue, shutdowns>>

\* _process_consumers line 184: sort by index, keep the values
ConsumersReturn ==
    /\ pc = "drain" /\ k >= drain_reads(expect)
    /\ result' = values(sorted(result))
    /\ pc' = "shutdown"
    /\ UNCHANGED <<config, shutdown_fn, run, calls_left, call, k, index, expect, outcome, callbacks,
                   mode, procs, channels, shutdowns>>

\* _shutdown_batches line 131 (done.set()) and _shutdown_consumers lines
\* 187-193 (one None per process on push_queue): the part of the run's
\* shutdown function that precedes terminate
ShutdownSignal(r) ==
    /\ shutdowns' = [shutdowns EXCEPT ![r] = @ + 1]
    /\ done' = IF mode[r] = "batches" THEN [done EXCEPT ![r] = TRUE] ELSE done
    /\ push_queue' = IF mode[r] = "consumers"
            THEN [push_queue EXCEPT ![r] = @ \o
                    [i \in 1..Cardinality({j \in Ranks : procs[r][j].st # "none"}) |-> <<>>]]
            ELSE push_queue

\* pyblaze.utils.stdmp.terminate(*processes): every process of the run that
\* is still running is stopped
terminate(ps) ==
    [i \in Ranks |-> IF Alive(ps[i]) THEN ended(ps[i], "terminated") ELSE ps[i]]

\* process line 78: self._shutdown_fn() is entered
ProcessShutdown ==
    /\ pc = "shutdown"
    /\ ShutdownSignal(shutdown_fn)
    /\ pc' = "terminate"
    /\ UNCHANGED <<config, shutdown_fn, run, calls_left, call, locals, outcome, callbacks, mode,
                   procs, tick_queue, queues, pull_queue>>

\* _shutdown_batches line 132 / _shutdown_consumers line 195, then process
\* lines 79-80
ProcessReturn ==
    /\ pc = "terminate"
    /\ procs' = [procs EXCEPT ![shutdown_fn] = terminate(@)]
    /\ shutdown_fn' = None
    /\ outcome' = "returned"
    /\ pc' = "idle"
    /\ UNCHANGED <<config, run, calls_left, call, locals, callbacks, mode, channels, shutdowns>>

\* __del__ lines 198-200: the Vectorizer is discarded between two calls
Del ==
    /\ pc = "idle"
    /\ IF shutdown_fn = None
       THEN pc' = "discarded" /\ UNCHANGED <<shutdowns, done, push_queue>>
       ELSE pc' = "del_terminate" /\ ShutdownSignal(shutdown_fn)
    /\ UNCHANGED <<config, shutdown_fn, run, calls_left, call, locals, outcome, callbacks, mode,
                   procs, tick_queue, queues, pull_queue>>

\* __del__ line 200, the terminate call of the shutdown function
DelTerminate ==
    /\ pc = "del_terminate"
    /\ procs' = [procs EXCEPT ![shutdown_fn] = terminate(@)]
    /\ pc' = "discarded"
    /\ UNCHANGED <<config, shutdown_fn, run, calls_left, call, locals, outcome, callbacks, mode,
                   channels, shutdowns>>

\* ------------------------------------------------------ the worker processes
orchestrator == <<shutdown_fn, pc, run, calls_left, items, indexable, sized, k, index, expect,
                  result, outcome, callbacks, mode, shutdowns>>

\* _batch_worker lines 206-209 and _consumer_worker lines 224-225: the worker
\* calls worker_init with its rank and merges the arguments
WorkerInit(r, i) ==
    /\ procs[r][i].st = "spawned"
    /\ procs' = [procs EXCEPT ![r][i] = [@ EXCEPT
            !.init_log = IF worker_init = "absent" THEN @ ELSE Append(@, procs[r][i].rank),
            !.all_args = combine_args(procs[r][i].args,
                                      init_if_needed(worker_init, procs[r][i].rank)),
            !.st = IF mode[r] = "batches" THEN "running" ELSE "waiting"]]
    /\ UNCHANGED <<config, orchestrator, channels>>

\* _batch_worker lines 213-215: if tick_queue is not None: tick_queue.put(None),
\* as the number of ticks handed to the feeder thread
tick_twice(q, n) == IF q # NoQueue THEN n + 2 ELSE n
tick(q, n) == IF q # NoQueue THEN n + 1 ELSE n

\* _batch_worker lines 211-215: one item of the shard, then its tick
BatchWorkerItem(r, i) ==
    /\ procs[r][i].st = "running"
    /\ Len(procs[r][i].result) < Len(procs[r][i].items)
    /\ LET p == procs[r][i]
           item == p.items[Len(p.result) + 1]
       IN  IF worker_func_raises(item) THEN
               procs' = [procs EXCEPT ![r][i] = ended(@, "failed")]
           ELSE
               procs' = [procs EXCEPT ![r][i] = [@ EXCEPT
                       !.result = Append(@, worker_func(item, p.all_args)),
                       !.applied = @ + 1,
                       !.ticks = tick(tick_queue[r], @)]]
    /\ UNCHANGED <<config, orchestrator, channels>>

\* _batch_worker line 211: the for loop over the shard has ended
shard_done(p) == Len(p.result) = Len(p.items)

\* _batch_worker lines 217-219: put the bundle, then wait for the event
BatchWorkerPush(r, i) ==
    /\ procs[r][i].st = "running"
    /\ shard_done(procs[r][i])
    /\ procs' = [procs EXCEPT ![r][i] = [@ EXCEPT
            !.st = "parked", !.out = Append(@, procs[r][i].result)]]
    /\ UNCHANGED <<config, orchestrator, channels>>

\* _batch_worker line 219: done.wait() returns, the process ends
BatchWorkerExit(r, i) ==
    /\ procs[r][i].st = "parked"
    /\ done[r]
    /\ procs' = [procs EXCEPT ![r][i] = ended(@, "exited")]
    /\ UNCHANGED <<config, orchestrator, channels>>

\* _consumer_worker lines 228-232: take the next message; None ends the loop
\* and the process
ConsumerWorkerGet(r, i) ==
    /\ procs[r][i].st = "waiting"
    /\ push_queue[r] # <<>>
    /\ push_queue' = [push_queue EXCEPT ![r] = Tail(@)]
    /\ procs' = [procs EXCEPT ![r][i] =
            IF Head(push_queue[r]) = <<>>
            THEN ended(@, "exited")
            ELSE [@ EXCEPT !.st = "busy", !.item = Head(push_queue[r])]]
    /\ UNCHANGED <<config, orchestrator, tick_queue, queues, done, pull_queue>>

\* _consumer_worker lines 233-236: apply worker_func, put (idx, result)
ConsumerWorkerApply(r, i) ==
    /\ procs[r][i].st = "busy"
    /\ LET p == procs[r][i]
       IN  IF worker_func_raises(p.item[2]) THEN
               procs' = [procs EXCEPT ![r][i] = ended(@, "failed")]
           ELSE
               procs' = [procs EXCEPT ![r][i] = [@ EXCEPT
                       !.st = "waiting", !.item = <<>>, !.applied = @ + 1,
                       !.out = Append(@, <<p.item[1], worker_func(p.item[2], p.all_args)>>)]]
    /\ UNCHANGED <<config, orchestrator, channels>>

\* the write lock of the queue the workers of run r share (pull_queue on the
\* dynamic path, tick_queue on the static path) is held by no process, alive
\* or ended
WriteLockFree(r) == \A j \in Ranks : procs[r][j].wlock = "no"

\* the worker has put a message on the shared queue of its run
PutOnShared(r, i) ==
    IF mode[r] = "batches" THEN procs[r][i].ticks > 0 ELSE procs[r][i].out # <<>>

\* the feeder thread of the worker's shared queue (lines 215 and 236, put)
\* acquires the queue's write lock before it writes
FeederAcquire(r, i) ==
    /\ Alive(procs[r][i])
    /\ procs[r][i].wlock = "no"
    /\ PutOnShared(r, i)
    /\ WriteLockFree(r)
    /\ procs' = [procs EXCEPT ![r][i].wlock = "held"]
    /\ UNCHANGED <<config, orchestrator, channels>>

\* the feeder thread of the worker's result queue (lines 218 and 236, put)
\* writes the oldest message the worker has put: a bundle to the worker's own
\* queue, a result to pull_queue under the write lock
FeederWrite(r, i) ==
    /\ Alive(procs[r][i])
    /\ procs[r][i].out # <<>>
    /\ IF mode[r] = "batches"
       THEN /\ procs' = [procs EXCEPT ![r][i].out = Tail(@)]
            /\ queues' = [queues EXCEPT ![r][i] = Append(@, Head(procs[r][i].out))]
            /\ UNCHANGED pull_queue
       ELSE /\ procs[r][i].wlock = "held"
            /\ procs' = [procs EXCEPT ![r][i].out = Tail(@), ![r][i].wlock = "written"]
            /\ pull_queue' = [pull_queue EXCEPT ![r] = Append(@, Head(procs[r][i].out))]
            /\ UNCHANGED queues
    /\ UNCHANGED <<config, orchestrator, tick_queue, done, push_queue>>

\* the feeder thread of the worker's tick queue (line 215, put) writes one
\* tick under the write lock
FeederWriteTick(r, i) ==
    /\ Alive(procs[r][i])
    /\ procs[r][i].ticks > 0
    /\ procs[r][i].wlock = "held"
    /\ procs' = [procs EXCEPT ![r][i].ticks = @ - 1, ![r][i].wlock = "written"]
    /\ tick_queue' = [tick_queue EXCEPT ![r] = @ + 1]
    /\ UNCHANGED <<config, orchestrator, queues, done, push_queue, pull_queue>>

\* the feeder thread releases the write lock after its write
FeederRelease(r, i) ==
    /\ Alive(procs[r][i])
    /\ procs[r][i].wlock = "written"
    /\ procs' = [procs EXCEPT ![r][i].wlock = "no"]
    /\ UNCHANGED <<config, orchestrator, channels>>

Worker(r, i) ==
    \/ WorkerInit(r, i)
    \/ BatchWorkerItem(r, i)
    \/ BatchWorkerPush(r, i)
    \/ BatchWorkerExit(r, i)
    \/ ConsumerWorkerGet(r, i)
    \/ ConsumerWorkerApply(r, i)

Feeder(r, i) ==
    \/ FeederAcquire(r, i)
    \/ FeederWrite(r, i)
    \/ FeederWriteTick(r, i)
    \/ FeederRelease(r, i)

Orchestrator ==
    \/ ProcessSequential
    \/ SequentialItem
    \/ SequentialReturn
    \/ ProcessBatchesTypeError
    \/ ProcessBatchesValueError
    \/ ProcessBatchesIndexError
    \/ ProcessBatches
    \/ BatchesTick
    \/ BatchesBundle
    \/ ProcessConsumers
    \/ ConsumersPrime
    \/ ConsumersLoop
    \/ ConsumersDrain
    \/ ConsumersReturn
    \/ ProcessShutdown
    \/ ProcessReturn
    \/ Del
    \/ DelTerminate

Next ==
    \/ Orchestrator
    \/ \E r \in Runs, i \in Ranks : Worker(r, i)
    \/ \E r \in Runs, i \in Ranks : Feeder(r, i)

Spec == Init /\ [][Next]_vars

\* a client that calls process once, on a Vectorizer built without worker_init
InitFair == Constructed({"absent"}, {<<"a">>}, 1) /\ es = NoEarlyStopping

\* the same program under a scheduler that lets the orchestrating thread,
\* every worker process and every feeder thread run whenever they can (a
\* feeder thread waiting for a write lock an ended process holds cannot)
FairSpec ==
    /\ InitFair /\ [][Next]_vars
    /\ WF_vars(Orchestrator)
    /\ \A r \in Runs, i \in Ranks : WF_vars(Worker(r, i)) /\ WF_vars(Feeder(r, i))

\* ------------------------------------------------------------ EarlyStopping
vectorizer == <<num_workers, worker_init, callback_func, shutdown_fn, pc, run, calls_left, items,
                indexable, sized, args, k, index, expect, result, outcome, callbacks, mode,
                procs, tick_queue, queues, done, push_queue, pull_queue, shutdowns>>

Patiences == 0..MaxPatience
Metrics == 0..MaxMetric

\* _current_metric: the watched entry of the metrics dictionary
current_metric(metrics) == metrics.val_loss

\* _is_metric_better
is_metric_better(self, metrics) ==
    IF self.minimize THEN less(current_metric(metrics), self.best_metric)
    ELSE greater(current_metric(metrics), self.best_metric)

\* before_training: a training run starts
before_training ==
    /\ es.state \in {"constructed", "interrupted"}
    /\ es' = [es EXCEPT !.state = "training", !.epoch = 0, !.counter = 0,
                         !.best_metric = IF es.minimize THEN PosInf ELSE NegInf,
                         !.seen = <<>>]
    /\ UNCHANGED vectorizer

\* after_epoch: returns normally, or raises CallbackException, which
\* interrupts the training run
after_epoch ==
    /\ es.state = "training"
    /\ es.epoch < MaxEpochs
    /\ \E m \in Metrics :
        LET metrics == [val_loss |-> m] IN
        es' = IF is_metric_better(es, metrics)
              THEN [es EXCEPT !.epoch = @ + 1, !.seen = Append(@, m),
                              !.counter = 0, !.best_metric = Num(current_metric(metrics))]
              ELSE [es EXCEPT !.epoch = @ + 1, !.seen = Append(@, m),
                              !.counter = @ + 1,
                              !.state = IF es.counter + 1 = es.patience
                                        THEN "interrupted" ELSE "training"]
    /\ UNCHANGED vectorizer

InitEarlyStopping ==
    /\ Constructed({"absent"}, {<<>>}, 0)
    /\ num_workers = 0 /\ callback_func = FALSE
    /\ es \in {EarlyStopping(p, mn) : p \in Patiences, mn \in BOOLEAN}

NextEarlyStopping ==
    \/ before_training
    \/ after_epoch

\* an EarlyStopping callback driven by a training loop
SpecEarlyStopping == InitEarlyStopping /\ [][NextEarlyStopping]_vars

\* the same program, called repeatedly
SpecReuse == InitReuse /\ [][Next]_vars

\* ---------------------------------------------------------------- claims
Max(a, b) == IF a >= b THEN a ELSE b

\* the process call has ended, by return or by an exception
CallEnded == pc = "idle" /\ outcome # "none"

\* the user's own code (callback, iterator, worker_func) raised
UserErrors == {"CallbackError", "IteratorError", "TransformError"}

Spawned(r) == mode[r] \in {"batches", "consumers"}
LiveWorkers(r) == {i \in Ranks : Alive(procs[r][i])}

\* the i-th result is worker_func applied to the i-th item, with the merged
\* arguments of one of the contexts (rank 0 in sequential mode)
IsMapOf(res, its) ==
    /\ Len(res) = Len(its)
    /\ \A i \in 1..Len(its) : \E rank \in 0..Max(num_workers - 1, 0) :
            res[i] = worker_func(its[i], combine_args(args, init_if_needed(worker_init, rank)))

\* C1: for every input length (of a list or of a stream) and every worker
\* count >= 0, a process call in which no user code raises returns, and
\* returns one result per item, the i-th being worker_func applied to the
\* i-th item.
C1_ReturnsMapOfItems ==
    (CallEnded /\ num_workers >= 0 /\ outcome \notin UserErrors /\ (indexable => sized))
        => (outcome = "returned" /\ IsMapOf(result, items))

\* C2: when callback_func is configured, a process call that returns has
\* invoked it exactly once per item, in every mode.
C2_CallbackOncePerItem ==
    (CallEnded /\ outcome = "returned" /\ callback_func) => callbacks = Len(items)

\* number of work items dispatched whose result the orchestrator has not received
InFlight == index - Len(result)
InDynamicLoop == run >= 1 /\ mode[run] = "consumers" /\ pc \in {"prime", "loop", "drain"}

\* C3: in dynamic mode with W >= 1 workers, at most W work items are in flight
\* in every state, the code's own counter `expect` is that number while the
\* source is not exhausted, and an item is dispatched only while priming or in
\* the step that received a result.
C3_InFlightBounded ==
    /\ [](InDynamicLoop /\ num_workers > 0 =>
            /\ InFlight >= 0 /\ InFlight <= num_workers
            /\ (pc \in {"prime", "loop"} => expect = InFlight))
    /\ [][(InDynamicLoop /\ index' = index + 1) =>
            (pc = "prime" \/ Len(result') = Len(result) + 1)]_vars

\* C3 witness: the window is full again after a result was received and the
\* freed slot was refilled
C3_Witness ==
    /\ InDynamicLoop /\ pc = "loop" /\ num_workers = 2
    /\ Len(result) >= 1 /\ index = 3 /\ InFlight = num_workers

\* C4: when a process call has ended, by return or by any exception, no worker
\* process of that run is still alive.
C4_NoWorkerAliveAtExit ==
    CallEnded => LiveWorkers(run) = {}

WorkerFailed(r) == \E i \in Ranks : procs[r][i].st = "failed"

\* C5: once worker_func has raised inside a worker of the current call, the
\* call does not hang: until it ends, the orchestrator or one of the run's
\* workers can still take a step (the error reaches the next blocking read).
C5_WorkerErrorReachesOrchestrator ==
    (CurrentCall /\ WorkerFailed(run))
        => ENABLED (Orchestrator \/ \E i \in Ranks : Worker(run, i) \/ Feeder(run, i))

\* C6: after a process call has failed, the Vectorizer is clean: no worker of
\* any run is alive and no shutdown function is pending.
C6_CleanAfterFailure ==
    (CallEnded /\ outcome # "returned")
        => (shutdown_fn = None /\ \A r \in Runs : LiveWorkers(r) = {})

\* C7: a process call made while a recorded shutdown function is still pending
\* fails at once without creating a process, and at no time do two runs have
\* live workers.
C7_FailsFastWhenShutdownPending ==
    /\ [][(pc = "idle" /\ shutdown_fn # None /\ run' = run + 1)
            => (pc' = "idle" /\ outcome' \notin {"none", "returned"} /\ procs' = procs)]_vars
    /\ [](Cardinality({r \in Runs : LiveWorkers(r) # {}}) <= 1)

\* C8: with a negative worker count every process call has failed at once:
\* the orchestrator is never inside a call, no process exists, no item was
\* dispatched.
C8_NegativeWorkerCountFailsFast ==
    (num_workers < 0 /\ run >= 1)
        => /\ ~CurrentCall
           /\ outcome \in {"ValueError", "TypeError"}
           /\ \A r \in Runs : ~Spawned(r)
           /\ index = 0

\* C9: the shutdown function of a run is never invoked twice, and once the
\* Vectorizer has been discarded the shutdown function of every run that
\* created workers has been invoked exactly once.
C9_ShutdownExactlyOnce ==
    /\ \A r \in Runs : shutdowns[r] <= 1
    /\ pc = "discarded" => \A r \in Runs : Spawned(r) => shutdowns[r] = 1

\* number of worker_init calls made by the contexts of run r
InitCalls(r) ==
    LET f[i \in (-1)..(MaxWorkers - 1)] ==
            IF i = -1 THEN 0 ELSE f[i - 1] + Len(procs[r][i].init_log)
    IN  f[MaxWorkers - 1]

Started(p) == p.st \in {"inline", "running", "waiting", "busy", "parked", "exited", "failed"}

\* what every context of every run satisfies: worker_init is called at most
\* once, with the context's own rank, before the first worker_func call, and
\* the ranks of one run are 0..W-1, all different
InitPerContext ==
    \A r \in Runs : \A i \in Ranks :
        LET p == procs[r][i] IN
        /\ Len(p.init_log) <= 1
        /\ worker_init = "absent" => p.init_log = <<>>
        /\ p.init_log # <<>> => p.init_log = <<i>>
        /\ (worker_init # "absent" /\ (Started(p) \/ p.applied > 0)) => p.init_log = <<i>>
        /\ p.st # "none" =>
                /\ p.rank = i /\ p.rank \in 0..Max(num_workers - 1, 0)
                /\ \A j \in Ranks \ {i} : procs[r][j].st # "none" => procs[r][j].rank # p.rank

\* C10 as stated: when worker_init is configured, every context calls it
\* exactly once, with its own rank, before any worker_func call, and a process
\* call that returned has made as many worker_init calls as there are workers
\* (one when W = 0).
C10_InitOncePerWorker ==
    /\ InitPerContext
    /\ (CallEnded /\ outcome = "returned" /\ worker_init # "absent")
            => InitCalls(run) = Max(num_workers, 1)

\* C10 amended: every context calls worker_init at most once, with its own
\* rank, before any worker_func call; a returned call has made exactly
\* max(W, 1) worker_init calls in sequential and static mode, and at most W in
\* dynamic mode, where a worker can be terminated before it starts.
C10_InitAtMostOncePerWorker ==
    /\ InitPerContext
    /\ (CallEnded /\ outcome = "returned" /\ worker_init # "absent") =>
            IF mode[run] = "consumers"
            THEN InitCalls(run) <= num_workers
            ELSE InitCalls(run) = Max(num_workers, 1)

\* C10 witness: a static call over more items than workers has returned, both
\* workers called worker_init once and then processed 2 and 1 items
C10_Witness ==
    /\ CallEnded /\ outcome = "returned" /\ worker_init # "absent"
    /\ mode[run] = "batches" /\ num_workers = 2 /\ Len(items) = 3
    /\ InitCalls(run) = 2
    /\ procs[run][0].applied = 2 /\ procs[run][1].applied = 1
\* the shards of a run, concatenated in rank order
RECURSIVE shards_concat(_, _)
shards_concat(ps, w) ==
    IF w = 0 THEN <<>> ELSE shards_concat(ps, w - 1) \o ps[w - 1].items

\* the current call was made with a sized, indexable input and W > 0 workers
StaticCall == run >= 1 /\ indexable /\ sized /\ num_workers > 0

\* the shards of the current call are contiguous, in rank order, and cover the input
ShardsPartition ==
    /\ mode[run] = "batches"
    /\ \A i \in Ranks : (procs[run][i].st # "none") <=> (i < num_workers)
    /\ shards_concat(procs[run], num_workers) = items
    /\ \A i, j \in 0..(num_workers - 1) :
            Len(procs[run][i].items) - Len(procs[run][j].items) <= 1

\* C11: static mode divides [0, N) into exactly W contiguous, rank-ordered,
\* disjoint, covering shards whose sizes differ by at most one, the last
\* shards absorbing the remainder; no shard is empty unless N < W, and when
\* N < W the excess workers get an empty shard and the run still completes.
C11_ShardsLastAbsorbRemainder ==
    StaticCall =>
        /\ outcome # "IndexError"
        /\ ShardsPartition
        /\ \A i, j \in 0..(num_workers - 1) :
                i < j => Len(procs[run][i].items) <= Len(procs[run][j].items)
        /\ Len(items) >= num_workers =>
                \A i \in 0..(num_workers - 1) : procs[run][i].items # <<>>

\* _batch_worker lines 206-213 on one shard: the results of the worker of that rank
shard_output(shard, rank) ==
    [j \in 1..Len(shard) |->
        worker_func(shard[j], combine_args(args, init_if_needed(worker_init, rank)))]

\* _process_batches lines 84-128 as a function of the input: the bundles of
\* the shards, concatenated in rank order
RECURSIVE static_output(_, _, _)
static_output(its, w, i) ==
    IF i = 0 THEN <<>>
    ELSE static_output(its, w, i - 1) \o
         shard_output(slice(its, splits(Len(its), w)[i - 1], splits(Len(its), w)[i]), i - 1)

\* C12: for any W >= 1 and any items, the static and the dynamic scheduler
\* yield identical ordered outputs under every interleaving: whatever a
\* parallel call returns is what the static scheduler returns on these items.
C12_DynamicEqualsStatic ==
    (CallEnded /\ outcome = "returned" /\ num_workers >= 1)
        => /\ ~splits_index_error(Len(items), num_workers)
           /\ result = static_output(items, num_workers, num_workers)

\* the orchestrator's result list holds plain values (line 184 has run)
Sorted == pc \in {"shutdown", "terminate"} \/ outcome = "returned"

\* a consumer holds a work item: it is applying worker_func, or it ended while doing so
Holds(p) == p.item # <<>>

\* the number of places the work item of index j is in: queued for the
\* workers, held by a worker, put by a worker and not yet written, queued for
\* the orchestrator as a result, collected
Copies(j) ==
    Cardinality({e \in Ranks \X (1..MaxLen) :
            /\ e[2] <= Len(procs[run][e[1]].out)
            /\ procs[run][e[1]].out[e[2]] =
                    <<j, worker_func(items[j + 1], procs[run][e[1]].all_args)>>}) +
    Cardinality({n \in 1..Len(push_queue[run]) :
            push_queue[run][n] # <<>> /\ push_queue[run][n] = work_item(j, items[j + 1])})
    + Cardinality({i \in Ranks :
            Holds(procs[run][i]) /\ procs[run][i].item = work_item(j, items[j + 1])})
    + Cardinality({n \in 1..Len(pull_queue[run]) :
            /\ pull_queue[run][n][1] = j
            /\ \E i \in Ranks : pull_queue[run][n][2] = worker_func(items[j + 1], procs[run][i].all_args)})
    + (IF Sorted THEN (IF j < Len(result) THEN 1 ELSE 0)
       ELSE Cardinality({n \in 1..Len(result) :
            /\ result[n][1] = j
            /\ \E i \in Ranks : result[n][2] = worker_func(items[j + 1], procs[run][i].all_args)}))

\* messages and results of the current run, whatever their index
Entries ==
    Cardinality({n \in 1..Len(push_queue[run]) : push_queue[run][n] # <<>>})
    + Cardinality({i \in Ranks : Holds(procs[run][i])})
    + Cardinality({e \in Ranks \X (1..MaxLen) : e[2] <= Len(procs[run][e[1]].out)})
    + Len(pull_queue[run]) + Len(result)

\* work items of the current run no worker has taken yet, and those a worker holds
Waiting == Cardinality({n \in 1..Len(push_queue[run]) : push_queue[run][n] # <<>>})
Held == Cardinality({i \in Ranks : Holds(procs[run][i])})

\* applications of worker_func the first w workers of a run have completed
RECURSIVE applied_sum(_, _)
applied_sum(ps, w) == IF w = 0 THEN 0 ELSE applied_sum(ps, w - 1) + ps[w - 1].applied

\* a process of run r has ended
Ended(p) == p.st \in {"failed", "exited", "terminated"}
SomeEnded(r) == \E i \in Ranks : Ended(procs[r][i])

DynamicCall == run >= 1 /\ mode[run] = "consumers"

\* C13: in dynamic mode the dispatched indices are 0, 1, 2, ... in submission
\* order, the item of index j is the j-th source item, every dispatched item
\* is waiting, held by one worker, or was processed exactly once, its result
\* exists at most once (exactly once while no worker process has ended), and
\* a call that reaches its return has dispatched every source item and
\* collected exactly one result per index.
C13_EachItemOnce ==
    /\ [](DynamicCall =>
            /\ index \in 0..Len(items)
            /\ Waiting + Held + applied_sum(procs[run], MaxWorkers) = index
            /\ \A j \in 0..(index - 1) :
                    \/ Copies(j) = 1
                    \/ Copies(j) = 0 /\ ~Sorted /\ SomeEnded(run)
            /\ Entries <= index
            /\ Sorted => (index = Len(items) /\ Len(result) = Len(items)))
    /\ [][(DynamicCall /\ run' = run /\ Len(push_queue'[run]) > Len(push_queue[run])
            /\ pc \in {"prime", "loop"}) =>
                /\ push_queue'[run] = Append(push_queue[run], <<index, items[index + 1]>>)
                /\ index' = index + 1]_vars

\* C13 witness: a call over three items has returned, both workers having
\* processed some of them
C13_Witness ==
    /\ DynamicCall /\ outcome = "returned" /\ num_workers = 2 /\ Len(items) = 3
    /\ \A i \in Ranks : procs[run][i].applied >= 1

\* the worker processes the current call has created
SpawnedWorkers == {i \in Ranks : procs[run][i].st \notin {"none", "inline"}}

\* C14: the mode is selected once per call.  With W = 0 no worker is spawned
\* and the calling thread applies the transform in iteration order; with
\* W > 0 the static scheduler is used exactly when the input supports indexed
\* access and has a known length, the dynamic scheduler for every other
\* input, and in both exactly W workers are spawned.
C14_ModeSelection ==
    run >= 1 =>
        /\ num_workers = 0 =>
                /\ mode[run] = "sequential" /\ SpawnedWorkers = {}
                /\ Len(result) <= Len(items)
                /\ \A j \in 1..Len(result) :
                        result[j] = worker_func(items[j], procs[run][0].all_args)
        /\ num_workers > 0 =>
                /\ mode[run] = (IF indexable /\ sized THEN "batches" ELSE "consumers")
                /\ Cardinality(SpawnedWorkers) = num_workers

\* the arguments after the item in a call of worker_func by the context of a
\* rank: the call-site arguments, then what worker_init returned for that rank
ExpectedArgs(rank) ==
    IF worker_init = "absent" THEN args
    ELSE IF worker_init = "scalar" THEN Append(args, <<"ctx", rank>>)
    ELSE args \o << <<"ctx", rank>>, "aux" >>

\* a recorded application of worker_func carries the arguments of some context
AppliedWithExpectedArgs(app) ==
    \E rank \in 0..Max(num_workers - 1, 0) : app[2] = ExpectedArgs(rank)

\* C15: worker_func is called with the item, then the call-site arguments in
\* order, then the arguments derived from worker_init's return value; nothing
\* is appended when worker_init is absent; a worker uses the same merged
\* arguments for every item.
C15_ArgumentOrder ==
    /\ [](\A r \in Runs, i \in Ranks :
            LET p == procs[r][i] IN
            /\ Started(p) => p.all_args = ExpectedArgs(p.rank)
            /\ \A j \in 1..Len(p.result) : p.result[j] = <<p.items[j], ExpectedArgs(p.rank)>>
            /\ \A n \in 1..Len(p.out) :
                    IF mode[r] = "consumers" THEN p.out[n][2][2] = ExpectedArgs(p.rank)
                    ELSE p.out[n] = p.result
            /\ \A n \in 1..Len(pull_queue[r]) : AppliedWithExpectedArgs(pull_queue[r][n][2]))
    /\ [](run >= 1 => \A n \in 1..Len(result) :
            IF mode[run] = "consumers" /\ ~Sorted
            THEN AppliedWithExpectedArgs(result[n][2])
            ELSE AppliedWithExpectedArgs(result[n]))
    /\ [][\A r \in Runs, i \in Ranks :
            (Started(procs[r][i]) /\ run' = run) =>
                procs'[r][i].all_args = procs[r][i].all_args]_vars

\* C15 witness: a static call with one call-site argument and a worker_init
\* that returns a pair has returned; the last item was processed by rank 1
C15_Witness ==
    /\ outcome = "returned" /\ run >= 1 /\ mode[run] = "batches"
    /\ args = <<"a">> /\ worker_init = "tuple" /\ num_workers = 2
    /\ Len(result) = 3
    /\ result[3] = <<items[3], <<"a", <<"ctx", 1>>, "aux">> >>

\* the last epoch whose metric was strictly better than that of every epoch
\* before it (0 when there is none)
LastImprovement(seen, minimize) ==
    LET better(a, b) == IF minimize THEN a < b ELSE a > b
        records == {n \in 1..Len(seen) : \A m \in 1..(n - 1) : better(seen[n], seen[m])}
    IN  IF records = {} THEN 0 ELSE CHOOSE n \in records : \A m \in records : m <= n

\* the number of consecutive epochs, up to the last one, without a strict improvement
Streak(seen, minimize) == Len(seen) - LastImprovement(seen, minimize)

\* C16: after before_training, for every patience >= 0 and both minimize
\* settings, the counter is the number of consecutive epochs without strict
\* improvement (0 right after a strictly better epoch, which also becomes the
\* best metric), 0 <= counter < patience after every after_epoch that returned
\* normally, and training is interrupted exactly when that number reached
\* the patience.
C16_StopsAfterPatience ==
    es.state \in {"training", "interrupted"} =>
        /\ es.counter = Streak(es.seen, es.minimize)
        /\ LastImprovement(es.seen, es.minimize) > 0 =>
                es.best_metric = Num(es.seen[LastImprovement(es.seen, es.minimize)])
        /\ (es.state = "training" /\ es.epoch >= 1) =>
                (0 <= es.counter /\ es.counter < es.patience)
        /\ es.state = "interrupted" => es.counter = es.patience

\* the None messages in a queue
Sentinels(q) == Cardinality({n \in 1..Len(q) : q[n] = <<>>})

\* a consumer has not left its receive loop
InReceiveLoop(p) == p.st \in {"spawned", "waiting", "busy"}

\* exactly one sentinel per worker of run r was pushed, if any; a worker
\* leaves its loop with the first it reads
OneSentinelPerWorker(r) ==
    Sentinels(push_queue[r]) + Cardinality({i \in Ranks : procs[r][i].st = "exited"})
        = IF shutdowns[r] > 0 THEN Cardinality({i \in Ranks : procs[r][i].st # "none"}) ELSE 0

NoWorkBehindSentinel(r) ==
    \A n, m \in 1..Len(push_queue[r]) :
        (n < m /\ push_queue[r][n] = <<>>) => push_queue[r][m] = <<>>

\* the sentinels of the current run were pushed with the source exhausted and
\* every result collected
SentinelsAfterCollection ==
    shutdowns[run] > 0 => (index = Len(items) /\ Sorted /\ Len(result) = Len(items))

\* C17: in dynamic mode the orchestrator pushes exactly one sentinel per
\* worker, only after the source is exhausted and all results are collected;
\* a worker consumes at most one sentinel, no work item is queued behind a
\* sentinel, and every worker eventually leaves its receive loop: while one
\* is still in it, the system is not stuck.
C17_SentinelProtocol ==
    /\ \A r \in Runs : mode[r] = "consumers" =>
            (OneSentinelPerWorker(r) /\ NoWorkBehindSentinel(r))
    /\ DynamicCall =>
            /\ SentinelsAfterCollection
            /\ (\E i \in Ranks : InReceiveLoop(procs[run][i])) => ENABLED Next

\* the bundles of the first w workers of the current run, in rank order
RECURSIVE bundles_concat(_, _)
bundles_concat(ps, w) ==
    IF w = 0 THEN <<>> ELSE bundles_concat(ps, w - 1) \o ps[w - 1].result

BatchCall == run >= 1 /\ mode[run] = "batches"

\* the orchestrator has read the bundle of rank i
ReadBy(i) ==
    \/ pc = "bundles" /\ i < k
    \/ pc \in {"shutdown", "terminate"}
    \/ outcome = "returned"

AllBundlesRead ==
    /\ \A i \in 0..(num_workers - 1) : ReadBy(i) /\ queues[run][i] = <<>>
    /\ result = bundles_concat(procs[run], num_workers)

\* a worker puts at most one bundle, after its whole shard, and then waits:
\* the bundle is with the feeder thread, in the worker's queue, or read; the
\* orchestrator reads one bundle per worker in rank order
BundleProtocol ==
    /\ \A i \in 0..(num_workers - 1) :
        LET p == procs[run][i] IN
        /\ Len(p.out) + Len(queues[run][i]) <= 1
        /\ p.out # <<>> => (p.out[1] = p.result /\ p.st = "parked" /\ ~ReadBy(i))
        /\ queues[run][i] # <<>> =>
                /\ queues[run][i][1] = p.result
                /\ p.st \in {"parked", "exited", "terminated"}
                /\ ~ReadBy(i)
        /\ p.st \in {"parked", "exited"} => Len(p.result) = Len(p.items)
        /\ p.st = "parked" => (p.out # <<>> \/ queues[run][i] # <<>> \/ ReadBy(i))
        /\ ReadBy(i) => p.st \in {"parked", "exited", "terminated"}
    /\ pc = "bundles" => (result = bundles_concat(procs[run], k) /\ ~done[run])

\* a parked worker stays parked until the release signal is set or it is terminated
ParkedUntilReleased ==
    \A r \in Runs, i \in Ranks :
        (procs[r][i].st = "parked" /\ procs'[r][i].st # "parked" /\ run' = run) =>
            \/ procs'[r][i].st = "exited" /\ done[r]
            \/ procs'[r][i].st = "terminated"

\* C18: a static worker pushes its bundle only after its whole shard, exactly
\* one bundle, and then stays parked on the release signal; the signal is set
\* only after the orchestrator has read the bundle of every worker, one read
\* per worker in rank order, so no worker exits before all bundles are read.
C18_ReleaseAfterAllBundles ==
    /\ [](BatchCall =>
            /\ BundleProtocol
            /\ done[run] => AllBundlesRead
            /\ \A i \in Ranks : procs[run][i].st = "exited" => AllBundlesRead)
    /\ [][ParkedUntilReleased]_vars

\* worker_func raises on no item of the current input
NoPoison == \A j \in 1..Len(items) : ~worker_func_raises(items[j])

\* the orchestrator is at a pull_queue.get() of the while loop or of the drain loop
AtResultRead == pc = "loop" \/ (pc = "drain" /\ k < drain_reads(expect))

\* C19: in dynamic mode with W >= 1 workers and a finite source of any
\* length, the orchestrator is at a blocking result read only while an item
\* is in flight, the drain loop ends exactly when nothing is in flight, and,
\* when worker_func raises on no item, the call eventually ends: it returns,
\* unless the iterator or the callback raised.
C19_DynamicTerminates ==
    /\ [](DynamicCall /\ num_workers >= 1 =>
            /\ AtResultRead => InFlight >= 1
            /\ pc = "drain" => (InFlight = 0 <=> ENABLED ConsumersReturn)
            /\ CallEnded => outcome \in {"returned", "IteratorError", "CallbackError"})
    /\ ((DynamicCall /\ num_workers >= 1 /\ NoPoison /\ CurrentCall) ~> CallEnded)

\* C19 witness: a call over a source shorter than the worker count has returned
C19_Witness ==
    /\ DynamicCall /\ num_workers = 2 /\ Len(items) = 1
    /\ outcome = "returned"

\* items the workers of the current static run have completed
Completed == Len(bundles_concat(procs[run], num_workers))

\* the orchestrator has left the tick loop
PastTicks == pc \in {"bundles", "shutdown", "terminate"} \/ outcome = "returned"

\* ticks the workers of the current run have put and their feeder threads
\* have not written yet
RECURSIVE ticks_sum(_, _)
ticks_sum(ps, w) == IF w = 0 THEN 0 ELSE ticks_sum(ps, w - 1) + ps[w - 1].ticks

\* C20: in static mode the workers emit one tick per completed item exactly
\* when a callback is configured (none otherwise): every tick is pending,
\* queued or consumed, and none is missing while no worker process has ended;
\* the orchestrator consumes N ticks, calling the callback once per tick,
\* before it reads any bundle; a running worker can always take its next step,
\* and when worker_func raises on no item the call ends under every fair
\* interleaving.
C20_TicksBeforeBundles ==
    /\ [](BatchCall =>
            /\ callback_func =>
                    /\ ticks_sum(procs[run], MaxWorkers) + tick_queue[run] + callbacks <= Completed
                    /\ ~SomeEnded(run) =>
                            ticks_sum(procs[run], MaxWorkers) + tick_queue[run] + callbacks = Completed
            /\ ~callback_func =>
                    /\ tick_queue[run] = NoQueue /\ callbacks = 0
                    /\ ticks_sum(procs[run], MaxWorkers) = 0
            /\ (callback_func /\ PastTicks) =>
                    /\ callbacks = Len(items) /\ tick_queue[run] = 0
                    /\ ticks_sum(procs[run], MaxWorkers) = 0
            /\ ~PastTicks => result = <<>>
            /\ \A i \in Ranks : procs[run][i].st = "running" => ENABLED Worker(run, i))
    /\ [][(BatchCall /\ run' = run /\ callbacks' # callbacks) =>
            (callbacks' = callbacks + 1 /\ tick_queue'[run] = tick_queue[run] - 1
             /\ pc = "ticks")]_vars
    /\ ((BatchCall /\ NoPoison /\ CurrentCall) ~> CallEnded)

\* C20 witness: three ticks were consumed, three callbacks made, and the
\* orchestrator has read the first of two bundles
C20_Witness ==
    /\ BatchCall /\ callback_func /\ num_workers = 2 /\ Len(items) = 3
    /\ pc = "bundles" /\ k = 1 /\ callbacks = 3 /\ tick_queue[run] = 0

====
